---- MODULE Spec2Model ----
(***************************************************************************)
(* Resume matching service: the resume processing pipeline                 *)
(* (apps/api/app/main.py), the job-description store and the match engine  *)
(* (apps/api/app/routes_match.py), as a state machine over the two tables  *)
(* of the relational store.                                                *)
(*                                                                         *)
(* Conventions.                                                            *)
(*  - A nullable column holds Null (<<>>) or Some(v) (<<v>>).              *)
(*  - A store write (one connection, one UPDATE/INSERT, one commit) either *)
(*    commits as a whole or raises with no effect on the table.            *)
(*  - A text is abstracted to the features the code reads from it: its     *)
(*    character counts, the word tokens it contains, the chunk the section *)
(*    splitter finds for the skills header, and the direction of its       *)
(*    embedding.                                                           *)
(*  - resp is the response emitted by the step just taken (NoResp for a    *)
(*    step of a background run, which answers to no caller).               *)
(***************************************************************************)
EXTENDS Integers, Sequences, FiniteSets, TLC

VARIABLES
    resumes,   \* table resumes: id -> row, for the ids inserted so far
    files,     \* upload directory: id -> the stored document
    bg,        \* id -> the background run process_resume_text(id, path)
    jds,       \* table job_descriptions: id -> row
    resp,      \* the response of the step just taken
    call,      \* pure-function harness: the call being evaluated
    ret,       \* pure-function harness: its result
    _model,    \* embeddings.py: the module global _model
    thr,       \* embeddings.py: thread -> its position inside embed_text
    conns,     \* the storage connections that are open, named by their call
    ops        \* call -> the store operation it runs and its position

vars == <<resumes, files, bg, jds, resp, call, ret, _model, thr, conns, ops>>

----------------------------------------------------------------------------
(* Bounds of the model *)

MaxResumes == 2
MaxJDs == 1
MaxTopK == 2

(* Program constants *)

OCR_MIN_CHARS == 200

----------------------------------------------------------------------------
(* Values *)

Null == <<>>
Some(v) == <<v>>
Val(o) == o[1]

\* A table or directory: a function from the keys inserted so far.
Empty == [k \in {} |-> Null]
Insert(tbl, key, row) ==
    [k \in DOMAIN tbl \cup {key} |-> IF k = key THEN row ELSE tbl[k]]

NoResp == [op |-> "none"]
NoCall == [fn |-> "none"]
NoRet == [fn |-> "none"]
NoThreads == [t \in {} |-> Null]
NoOps == [c \in {} |-> Null]

\* A text: edge = leading/trailing whitespace characters, chars = the
\* characters that survive whitespace collapsing, extra = redundant inner
\* whitespace characters, toks = its word tokens, sect = the tokens of the
\* chunk that follows a skills header (Null when the text has no such
\* header), topic = the direction of its embedding.
Text(edge, chars, extra, toks, sect, topic) ==
    [edge |-> edge, chars |-> chars, extra |-> extra, toks |-> toks,
     sect |-> sect, topic |-> topic]

Len_(t) == t.edge + t.chars + t.extra

\* str.strip()
strip(t) == [t EXCEPT !.edge = 0]

\* The files a client uploads: the file name, whether the document library
\* can open the bytes, and the text layer of its pages.
Documents ==
    { [filename |-> "scan.pdf", wellformed |-> TRUE,
       body |-> Text(2, 0, 0, {}, Null, 0)],
      [filename |-> "short.docx", wellformed |-> TRUE,
       body |-> Text(1, 199, 0, {"sql"}, Null, 0)],
      [filename |-> "CV.PDF", wellformed |-> TRUE,
       body |-> Text(0, 200, 0, {"going"}, Null, 0)],
      [filename |-> "cv.docx", wellformed |-> TRUE,
       body |-> Text(3, 240, 10, {"Python", "sql", "git"},
                     Some({"Python", "sql"}), 1)],
      [filename |-> "cv.doc", wellformed |-> TRUE,
       body |-> Text(0, 300, 0, {"python"}, Null, 2)],
      [filename |-> "broken.pdf", wellformed |-> FALSE,
       body |-> Text(0, 0, 0, {}, Null, 0)] }

\* An upload whose multipart part carries no file name.
NoNameUpload ==
    [filename |-> "", wellformed |-> TRUE, body |-> Text(0, 0, 0, {}, Null, 0)]

\* Path.suffix of the stored file, and str.lower() on it.
Suffix(filename) ==
    CASE filename \in {"scan.pdf", "broken.pdf"} -> ".pdf"
      [] filename = "CV.PDF" -> ".PDF"
      [] filename \in {"short.docx", "cv.docx"} -> ".docx"
      [] filename = "cv.doc" -> ".doc"
      [] OTHER -> ""

LowerSuffix(sfx) == IF sfx = ".PDF" THEN ".pdf" ELSE sfx

\* Messages of the exceptions the pipeline can see.
ErrUnsupported(suffix) == [error |-> "Unsupported file type", arg |-> suffix]
ErrMalformed == [error |-> "malformed document", arg |-> ""]
ErrStore == [error |-> "store unavailable", arg |-> ""]
ErrEmbed == [error |-> "embedding failed", arg |-> ""]

\* f"ERROR: {e}"
Diag(e) == [diag |-> "ERROR: ", e |-> e]

Ids == 1..MaxResumes

----------------------------------------------------------------------------
(* apps/api/app/extractors.py *)

\* extract_text_from_pdf / extract_text_from_docx: the text layer, stripped;
\* raises on a document the library cannot open.
extract_text_from(doc) ==
    IF doc.wellformed
    THEN [ok |-> TRUE, text |-> Some(strip(doc.body)), exc |-> Null]
    ELSE [ok |-> FALSE, text |-> Null, exc |-> Some(ErrMalformed)]

extract_text(doc) ==
    LET suffix == LowerSuffix(Suffix(doc.filename))
    IN  IF suffix \in {".pdf", ".docx"}
        THEN extract_text_from(doc)
        ELSE [ok |-> FALSE, text |-> Null,
              exc |-> Some(ErrUnsupported(suffix))]

----------------------------------------------------------------------------
(* apps/api/app/main.py: store helpers *)

\* faulty variant: the row is inserted as already being processed
NewRow_processing ==
    [status |-> "PROCESSING", raw_text |-> Null, clean_text |-> Null,
     parsed_json |-> Null, embedding |-> Null, embedding_model |-> Null]

NewRow ==
    [status |-> "UPLOADED", raw_text |-> Null, clean_text |-> Null,
     parsed_json |-> Null, embedding |-> Null, embedding_model |-> Null]

\* UPDATE resumes SET status[, raw_text] WHERE id: no row, no change.
set_status(tbl, id, status, raw_text) ==
    IF id \notin DOMAIN tbl THEN tbl
    ELSE IF raw_text = Null
    THEN [tbl EXCEPT ![id].status = status]
    ELSE [tbl EXCEPT ![id].status = status, ![id].raw_text = raw_text]

\* " ".join(text.split())
clean_text_basic(t) == [t EXCEPT !.edge = 0, !.extra = 0]

----------------------------------------------------------------------------
(* apps/api/app/parser.py and apps/api/app/embeddings.py *)

\* The vocabularies, cut to the terms the texts of the model can contain,
\* in the order of the source lists.
DEFAULT_SKILLS == <<"python", "sql", "git">>
SKILL_TERMS == <<"python", "go", "sql", "git">>

\* str.lower() on a token
Lower(tok) ==
    CASE tok = "Python" -> "python"
      [] tok = "Go" -> "go"
      [] tok = "I" -> "i"
      [] OTHER -> tok

\* term in word (substring), for the tokens of the model
IsSubstring(term, word) ==
    \/ term = word
    \/ term = "go" /\ word = "going"

AlphaOrder == <<"forward", "git", "go", "going", "i", "python", "sql", "use">>

\* sorted(set(found))
SortedSet(S) == SelectSeq(AlphaOrder, LAMBDA w : w \in S)

\* re.search(rf"\b{term}\b", text.lower()) over the skill list
extract_skills_in(toks, skill_list) ==
    SortedSet({ skill_list[i] : i \in
        { j \in DOMAIN skill_list :
            \E w \in toks : Lower(w) = Lower(skill_list[j]) } })

\* skill_list = DEFAULT_SKILLS
extract_skills(toks) == extract_skills_in(toks, DEFAULT_SKILLS)

\* parse_resume: the skills are read from the skills section when one is
\* found and from the whole text otherwise.
parse_resume(t) ==
    [skills |-> extract_skills(IF t.sect # Null THEN Val(t.sect) ELSE t.toks),
     sections_found |-> [skills |-> t.sect # Null]]

\* embed_text: the unit vector of the text, a direction k * 60 degrees
embed_text(t) == t.topic

EMBEDDING_MODEL_NAME == "all-MiniLM-L6-v2"

----------------------------------------------------------------------------
(* apps/api/app/main.py: the background run *)

\* faulty variant: the UPDATE leaves the embedding column out
set_phase3_outputs_without_embedding(tbl, id, clean, parsed, embedding, model) ==
    IF id \notin DOMAIN tbl THEN tbl
    ELSE [tbl EXCEPT ![id].status = "PROCESSED",
                     ![id].clean_text = Some(clean),
                     ![id].parsed_json = Some(parsed),
                     ![id].embedding_model = Some(model)]

set_phase3_outputs(tbl, id, clean, parsed, embedding, model) ==
    IF id \notin DOMAIN tbl THEN tbl
    ELSE [tbl EXCEPT ![id].status = "PROCESSED",
                     ![id].clean_text = Some(clean),
                     ![id].parsed_json = Some(parsed),
                     ![id].embedding = Some(embedding),
                     ![id].embedding_model = Some(model)]

\* faulty variant: the threshold compared with <=
needs_ocr_inclusive(text) == Len_(strip(text)) <= OCR_MIN_CHARS

\* len((text or "").strip()) < 200
needs_ocr(text) == Len_(strip(text)) < OCR_MIN_CHARS

\* faulty variant: no `return` after the NEEDS_OCR write
after_gate_no_return(status) == "phase3"

\* where the run continues after the gate's write: `return` after NEEDS_OCR
after_gate(status) == IF status = "NEEDS_OCR" THEN "returned" ELSE "phase3"

\* faulty variant: the handler writes the status alone
on_exception_status_only(tbl, id, e) == set_status(tbl, id, "FAILED", Null)

\* except Exception as e: set_status(resume_id, "FAILED", f"ERROR: {e}")
on_exception(tbl, id, e) == set_status(tbl, id, "FAILED", Some(Diag(e)))

NewRun == [pc |-> "start", text |-> Null, exc |-> Null, at |-> "none"]

Raise(id, e, at) ==
    bg' = [bg EXCEPT ![id].pc = "handler", ![id].exc = Some(e), ![id].at = at]

Goto(id, pc) == bg' = [bg EXCEPT ![id].pc = pc]

\* line 140: set_status(resume_id, "PROCESSING")
BgStart(id) ==
    /\ id \in DOMAIN bg /\ bg[id].pc = "start"
    /\ \E committed \in BOOLEAN :
         IF committed
         THEN /\ resumes' = set_status(resumes, id, "PROCESSING", Null)
              /\ Goto(id, "extract")
         ELSE /\ UNCHANGED resumes
              /\ Raise(id, ErrStore, "start")
    /\ resp' = NoResp
    /\ UNCHANGED <<files, jds, call, ret, _model, thr, conns, ops>>

\* line 142: text = extract_text(Path(storage_path))
BgExtract(id) ==
    /\ id \in DOMAIN bg /\ bg[id].pc = "extract"
    /\ LET r == extract_text(files[id])
       IN  IF r.ok
           THEN bg' = [bg EXCEPT ![id].pc = "gate", ![id].text = r.text]
           ELSE Raise(id, Val(r.exc), "extract")
    /\ resp' = NoResp
    /\ UNCHANGED <<resumes, files, jds, call, ret, _model, thr, conns, ops>>

\* lines 145-150: the OCR gate and its write
BgGate(id) ==
    /\ id \in DOMAIN bg /\ bg[id].pc = "gate"
    /\ LET text == Val(bg[id].text)
           status == IF needs_ocr(text) THEN "NEEDS_OCR" ELSE "EXTRACTED"
       IN  \E committed \in BOOLEAN :
             IF committed
             THEN /\ resumes' = set_status(resumes, id, status, Some(text))
                  /\ Goto(id, after_gate(status))
             ELSE /\ UNCHANGED resumes
                  /\ Raise(id, ErrStore, "gate")
    /\ resp' = NoResp
    /\ UNCHANGED <<files, jds, call, ret, _model, thr, conns, ops>>

\* lines 153-158: clean, parse, embed, set_phase3_outputs
BgPhase3(id) ==
    /\ id \in DOMAIN bg /\ bg[id].pc = "phase3"
    /\ LET clean == clean_text_basic(Val(bg[id].text))
           parsed == parse_resume(clean)
           embedding == embed_text(clean)
       IN  \E outcome \in {"ok", "embed raises", "write raises"} :
             CASE outcome = "ok" ->
                    /\ resumes' = set_phase3_outputs(resumes, id, clean, parsed,
                                      embedding, EMBEDDING_MODEL_NAME)
                    /\ Goto(id, "returned")
               [] outcome = "embed raises" ->
                    /\ UNCHANGED resumes
                    /\ Raise(id, ErrEmbed, "phase3")
               [] outcome = "write raises" ->
                    /\ UNCHANGED resumes
                    /\ Raise(id, ErrStore, "store")
    /\ resp' = NoResp
    /\ UNCHANGED <<files, jds, call, ret, _model, thr, conns, ops>>

\* lines 160-162: the handler; an exception of its own write leaves the run
BgHandler(id) ==
    /\ id \in DOMAIN bg /\ bg[id].pc = "handler"
    /\ \E committed \in BOOLEAN :
         IF committed
         THEN /\ resumes' = on_exception(resumes, id, Val(bg[id].exc))
              /\ Goto(id, "returned")
         ELSE /\ UNCHANGED resumes
              /\ Goto(id, "raised")
    /\ resp' = NoResp
    /\ UNCHANGED <<files, jds, call, ret, _model, thr, conns, ops>>

----------------------------------------------------------------------------
(* apps/api/app/main.py: request handlers on resumes *)

\* POST /resumes
upload_resume(file) ==
    IF file.filename = ""
    THEN /\ resp' = [op |-> "upload", code |-> 400]
         /\ UNCHANGED <<resumes, files, bg>>
    ELSE LET resume_id == Cardinality(DOMAIN resumes) + 1
         IN  /\ resume_id <= MaxResumes
             /\ \E committed \in BOOLEAN :
                  IF committed
                  THEN /\ resumes' = Insert(resumes, resume_id, NewRow)
                       /\ files' = Insert(files, resume_id, file)
                       /\ bg' = Insert(bg, resume_id, NewRun)
                       /\ resp' = [op |-> "upload", code |-> 200,
                                   resume_id |-> resume_id,
                                   status |-> "UPLOADED"]
                  ELSE /\ resp' = [op |-> "upload", code |-> 500]
                       /\ UNCHANGED <<resumes, files, bg>>

Upload ==
    /\ \E file \in Documents \cup {NoNameUpload} : upload_resume(file)
    /\ UNCHANGED <<jds, call, ret, _model, thr, conns, ops>>

\* GET /resumes/{resume_id}/text
get_resume_text(resume_id) ==
    IF resume_id \notin DOMAIN resumes
    THEN [op |-> "text", id |-> resume_id, code |-> 404]
    ELSE [op |-> "text", id |-> resume_id, code |-> 200,
          status |-> resumes[resume_id].status,
          raw_text |-> resumes[resume_id].raw_text]

GetResumeText ==
    /\ \E resume_id \in Ids : resp' = get_resume_text(resume_id)
    /\ UNCHANGED <<resumes, files, bg, jds, call, ret, _model, thr, conns, ops>>

----------------------------------------------------------------------------
(* apps/api/app/main.py: job descriptions *)

\* The contents clients post as job descriptions.
JDContents ==
    { Text(1, 120, 4, {"Python", "sql"}, Null, 0),
      Text(0, 80, 0, {"going", "git"}, Null, 1) }

\* A row written before the columns clean_text, embedding and
\* embedding_model were added (db.py adds them to an existing table).
LegacyJD ==
    [content |-> Text(0, 60, 0, {"sql"}, Null, 0), status |-> "CREATED",
     clean_text |-> Null, embedding |-> Null, embedding_model |-> Null]

LegacyId == 0
JDIds == 0..MaxJDs

\* POST /job-descriptions
create_job_description(content) ==
    LET jd_id == Cardinality(DOMAIN jds \ {LegacyId}) + 1
        clean == clean_text_basic(content)
        embedding == embed_text(clean)
    IN  /\ jd_id <= MaxJDs
        /\ \E outcome \in {"ok", "embed raises", "write raises"} :
             IF outcome = "ok"
             THEN /\ jds' = Insert(jds, jd_id,
                              [content |-> content, status |-> "CREATED",
                               clean_text |-> Some(clean),
                               embedding |-> Some(embedding),
                               embedding_model |-> Some(EMBEDDING_MODEL_NAME)])
                  /\ resp' = [op |-> "create_jd", code |-> 200,
                              jd_id |-> jd_id, status |-> "CREATED"]
             ELSE /\ UNCHANGED jds
                  /\ resp' = [op |-> "create_jd", code |-> 500]

CreateJobDescription ==
    /\ \E content \in JDContents : create_job_description(content)
    /\ UNCHANGED <<resumes, files, bg, call, ret, _model, thr, conns, ops>>

----------------------------------------------------------------------------
(* apps/api/app/routes_match.py *)

TOP_K_MIN == 1
TOP_K_MAX == 100

\* _normalize_skill: strip, lower, collapse inner whitespace (the terms of
\* the model hold no whitespace)
normalize_skill(s) == Lower(s)

\* "de-duplicate, stable order": keep the first occurrence of each element
RECURSIVE Dedup(_)
Dedup(seq) ==
    IF seq = <<>> THEN <<>>
    ELSE LET init == Dedup(SubSeq(seq, 1, Len(seq) - 1))
             last == seq[Len(seq)]
         IN  IF \E i \in DOMAIN init : init[i] = last
             THEN init ELSE Append(init, last)

\* [normalize(term) for term in _SKILL_TERMS if term in text.lower()]
keyword_scan(text) ==
    LET toks == IF text = Null THEN {} ELSE Val(text).toks
        found == SelectSeq(SKILL_TERMS,
                     LAMBDA term : \E w \in toks : IsSubstring(term, Lower(w)))
    IN  [i \in DOMAIN found |-> normalize_skill(found[i])]

extract_jd_skills(jd_text) == Dedup(keyword_scan(jd_text))

\* parsed_json["skills"] when it yields a skill, else the keyword scan of
\* the clean text; normalised and de-duplicated either way
extract_resume_skills(parsed_json, resume_clean_text) ==
    LET skills_val == IF parsed_json = Null THEN <<>>
                      ELSE Val(parsed_json).skills
        skills_from_parser ==
            Dedup([i \in DOMAIN skills_val |-> normalize_skill(skills_val[i])])
    IN  IF skills_from_parser # <<>>
        THEN skills_from_parser
        ELSE Dedup(keyword_scan(resume_clean_text))

\* A fraction num/den, den > 0.
Frac(num, den) == [num |-> num, den |-> den]

Max(a, b) == IF a >= b THEN a ELSE b
Min(a, b) == IF a <= b THEN a ELSE b

InSeq(x, seq) == \E i \in DOMAIN seq : seq[i] = x

\* faulty variant: the score divided by the number of resume skills
compute_skill_overlap_wrong_base(resume_skills, jd_skills) ==
    LET matched == SelectSeq(jd_skills, LAMBDA x : InSeq(x, resume_skills))
        missing == SelectSeq(jd_skills, LAMBDA x : ~InSeq(x, resume_skills))
    IN  [score |-> IF resume_skills # <<>>
                   THEN Frac(Len(matched), Len(resume_skills))
                   ELSE Frac(0, 1),
         matched |-> matched, missing |-> missing]

compute_skill_overlap(resume_skills, jd_skills) ==
    LET rs == { resume_skills[i] : i \in DOMAIN resume_skills }
        matched == SelectSeq(jd_skills, LAMBDA x : x \in rs)
        missing == SelectSeq(jd_skills, LAMBDA x : x \notin rs)
    IN  [score |-> IF jd_skills # <<>>
                   THEN Frac(Len(matched), Len(jd_skills))
                   ELSE Frac(0, 1),
         matched |-> matched, missing |-> missing]

\* hits / max(1, len(jd_skills)) over the substring hits in the clean text
experience_alignment(clean_text, jd_skills) ==
    LET toks == IF clean_text = Null THEN {} ELSE Val(clean_text).toks
        hits == SelectSeq(jd_skills,
                    LAMBDA x : \E w \in toks : IsSubstring(x, Lower(w)))
    IN  [score |-> IF jd_skills # <<>>
                   THEN Frac(Len(hits), Max(1, Len(jd_skills)))
                   ELSE Frac(0, 1),
         hits |-> hits]

\* Twice the cosine of the angle between the directions a and b.
Cos2(a, b) ==
    LET d == (a - b) % 6
    IN  CASE d = 0 -> 2
          [] d \in {1, 5} -> 1
          [] d \in {2, 4} -> -1
          [] OTHER -> -2

\* pgvector's embedding <=> q, the cosine distance, and 1 - distance
CosineDistance(a, b) == Frac(2 - Cos2(a, b), 2)
Similarity(a, b) == Frac(Cos2(a, b), 2)

\* x < y on fractions
FracLess(x, y) == x.num * y.den < y.num * x.den

\* round(num/den, 4) in units of 1/10000, halves to even
Round4(f) ==
    LET a == f.num * 10000
        q == a \div f.den
        r == a - q * f.den
    IN  IF 2 * r < f.den THEN q
        ELSE IF 2 * r > f.den THEN q + 1
        ELSE IF q % 2 = 0 THEN q ELSE q + 1

\* faulty variant: the weighted sum of the components as they are reported,
\* rounded to 4 decimal places
final_score_from_rounded(sim, skill, exp) ==
    Frac(12 * Round4(sim) + 5 * Round4(skill) + 3 * Round4(exp), 200000)

\* 0.60 * sim + 0.25 * skill + 0.15 * exp
final_score(sim, skill, exp) ==
    Frac(60 * sim.num * skill.den * exp.den
           + 25 * skill.num * sim.den * exp.den
           + 15 * exp.num * sim.den * skill.den,
         100 * sim.den * skill.den * exp.den)

\* lines 252-260: the four numbers of a result; semantic_sim is the nullable
\* column of the query, float(semantic_sim or 0.0)
score_fields(semantic_sim, skill_score, exp_score) ==
    LET sim == IF semantic_sim = Null THEN Frac(0, 1) ELSE Val(semantic_sim)
    IN  [final_score |-> Round4(final_score(sim, skill_score, exp_score)),
         semantic_similarity |-> Round4(sim),
         skills_overlap |-> Round4(skill_score),
         experience_alignment |-> Round4(exp_score)]

\* WHERE status = 'PROCESSED' AND embedding IS NOT NULL
Eligible(tbl) ==
    { id \in DOMAIN tbl :
        tbl[id].status = "PROCESSED" /\ tbl[id].embedding # Null }

\* faulty variant: ORDER BY ... DESC
nearest_neighbors_farthest(tbl, q, k) ==
    LET E == Eligible(tbl)
        n == Cardinality(E)
        dist(id) == CosineDistance(Val(tbl[id].embedding), q)
        ordered == { s \in [1..n -> E] :
                       /\ \A i, j \in 1..n : i # j => s[i] # s[j]
                       /\ \A i, j \in 1..n :
                            i < j => ~FracLess(dist(s[i]), dist(s[j])) }
    IN  { SubSeq(s, 1, Min(k, n)) : s \in ordered }

\* ORDER BY (embedding <=> q) ASC LIMIT k: the answers the store may give
\* (rows at the same distance come in any order)
nearest_neighbors(tbl, q, k) ==
    LET E == Eligible(tbl)
        n == Cardinality(E)
        dist(id) == CosineDistance(Val(tbl[id].embedding), q)
        ordered == { s \in [1..n -> E] :
                       /\ \A i, j \in 1..n : i # j => s[i] # s[j]
                       /\ \A i, j \in 1..n :
                            i < j => ~FracLess(dist(s[j]), dist(s[i])) }
    IN  { SubSeq(s, 1, Min(k, n)) : s \in ordered }

\* faulty variant: a descending sort that puts a later equal element first
RECURSIVE sort_by_final_score_ties_reversed(_)
sort_by_final_score_ties_reversed(results) ==
    IF results = <<>> THEN <<>>
    ELSE LET init == sort_by_final_score_ties_reversed(
                         SubSeq(results, 1, Len(results) - 1))
             x == results[Len(results)]
             pos == Cardinality({ i \in DOMAIN init :
                                    init[i].final_score > x.final_score })
         IN  SubSeq(init, 1, pos) \o <<x>> \o SubSeq(init, pos + 1, Len(init))

\* results.sort(key=final_score, reverse=True): stable
RECURSIVE sort_by_final_score(_)
sort_by_final_score(results) ==
    IF results = <<>> THEN <<>>
    ELSE LET init == sort_by_final_score(SubSeq(results, 1, Len(results) - 1))
             x == results[Len(results)]
             pos == Cardinality({ i \in DOMAIN init :
                                    init[i].final_score >= x.final_score })
         IN  SubSeq(init, 1, pos) \o <<x>> \o SubSeq(init, pos + 1, Len(init))

\* lines 244-269: the result of one retrieved row
score_row(tbl, id, q, jd_skills) ==
    LET row == tbl[id]
        sim == Similarity(Val(row.embedding), q)
        resume_skills == extract_resume_skills(row.parsed_json, row.clean_text)
        overlap == compute_skill_overlap(resume_skills, jd_skills)
        exp == experience_alignment(row.clean_text, jd_skills)
        f == score_fields(Some(sim), overlap.score, exp.score)
    IN  [resume_id |-> id,
         final_score |-> f.final_score,
         semantic_similarity |-> f.semantic_similarity,
         skills_overlap |-> f.skills_overlap,
         experience_alignment |-> f.experience_alignment,
         skills_matched |-> overlap.matched,
         skills_missing |-> overlap.missing,
         keyword_hits_in_resume_text |-> exp.hits]

MatchError(jd_id, top_k, code) ==
    [op |-> "match", jd_id |-> jd_id, top_k |-> top_k, code |-> code,
     queried |-> FALSE, retrieved |-> <<>>, jd_skills_detected |-> <<>>,
     results |-> <<>>]

\* lines 218-279: the query, the scores and the sort
match_ranked(jd_id, top_k) ==
    LET q == Val(jds[jd_id].embedding)
        jd_skills == extract_jd_skills(jds[jd_id].clean_text)
    IN  { [op |-> "match", jd_id |-> jd_id, top_k |-> top_k,
           code |-> 200, queried |-> TRUE, retrieved |-> rows,
           jd_skills_detected |-> jd_skills,
           results |-> sort_by_final_score(
               [i \in DOMAIN rows |->
                   score_row(resumes, rows[i], q, jd_skills)])] :
          rows \in nearest_neighbors(resumes, q, top_k) }

\* faulty variant: an unknown job description answered with an empty ranking
match_unknown_as_empty(jd_id, top_k) ==
    IF top_k < TOP_K_MIN \/ top_k > TOP_K_MAX
    THEN { MatchError(jd_id, top_k, 422) }
    ELSE IF jd_id \notin DOMAIN jds
    THEN { [MatchError(jd_id, top_k, 200) EXCEPT !.queried = TRUE] }
    ELSE IF jds[jd_id].embedding = Null
    THEN { MatchError(jd_id, top_k, 400) }
    ELSE match_ranked(jd_id, top_k)

\* POST /match: the responses the handler can give in the current state
match(jd_id, top_k) ==
    IF top_k < TOP_K_MIN \/ top_k > TOP_K_MAX
    THEN { MatchError(jd_id, top_k, 422) }
    ELSE IF jd_id \notin DOMAIN jds
    THEN { MatchError(jd_id, top_k, 404) }
    ELSE IF jds[jd_id].embedding = Null
    THEN { MatchError(jd_id, top_k, 400) }
    ELSE match_ranked(jd_id, top_k)

Match ==
    /\ \E jd_id \in JDIds, top_k \in 0..MaxTopK :
         \E r \in match(jd_id, top_k) : resp' = r
    /\ UNCHANGED <<resumes, files, bg, jds, call, ret, _model, thr, conns, ops>>

----------------------------------------------------------------------------

Init ==
    /\ resumes = Empty
    /\ files = Empty
    /\ bg = Empty
    /\ jds \in {Empty, Insert(Empty, LegacyId, LegacyJD)}
    /\ resp = NoResp
    /\ call = NoCall
    /\ ret = NoRet
    /\ _model = Null
    /\ thr = NoThreads
    /\ conns = {} /\ ops = NoOps

Next ==
    \/ Upload
    \/ \E id \in Ids : BgStart(id)
    \/ \E id \in Ids : BgExtract(id)
    \/ \E id \in Ids : BgGate(id)
    \/ \E id \in Ids : BgPhase3(id)
    \/ \E id \in Ids : BgHandler(id)
    \/ GetResumeText
    \/ CreateJobDescription
    \/ Match

Spec == Init /\ [][Next]_vars

----------------------------------------------------------------------------
(* compute_skill_overlap on its own: every pair of duplicate-free skill    *)
(* lists of up to MaxSkills terms, as the two extractors produce them.     *)

MaxSkills == 3

SkillLists ==
    UNION { { s \in [1..n -> { SKILL_TERMS[i] : i \in DOMAIN SKILL_TERMS }] :
                \A i, j \in 1..n : i # j => s[i] # s[j] } : n \in 0..MaxSkills }

InitOverlap ==
    /\ resumes = Empty /\ files = Empty /\ bg = Empty /\ jds = Empty
    /\ resp = NoResp
    /\ \E rs \in SkillLists, js \in SkillLists :
         call = [fn |-> "compute_skill_overlap",
                 resume_skills |-> rs, jd_skills |-> js]
    /\ ret = NoRet
    /\ _model = Null /\ thr = NoThreads
    /\ conns = {} /\ ops = NoOps

EvalOverlap ==
    /\ call.fn = "compute_skill_overlap" /\ ret = NoRet
    /\ ret' = [fn |-> "compute_skill_overlap",
               value |-> compute_skill_overlap(call.resume_skills,
                                               call.jd_skills)]
    /\ UNCHANGED <<resumes, files, bg, jds, resp, call, _model, thr, conns, ops>>

NextOverlap == EvalOverlap

SpecOverlap == InitOverlap /\ [][NextOverlap]_vars

----------------------------------------------------------------------------
(* The scores of one result on their own (routes_match.py lines 252-260):  *)
(* the similarity column as the query can return it, the two heuristic     *)
(* scores as fractions, under every top_k a request can carry.             *)

\* (1 - (embedding <=> q)) AS semantic_similarity: NULL, or a number in
\* [-1, 1] that need not sit on the 4-decimal grid
Similarities ==
    { Null, Some(Frac(4, 5)), Some(Frac(1, 2)), Some(Frac(-1, 2)),
      Some(Frac(1, 1)), Some(Frac(0, 1)), Some(Frac(1, 3)), Some(Frac(1, 7)),
      Some(Frac(-1, 1)) }

\* hits / len(jd_skills) for up to MaxSkills job-description skills
HeuristicScores ==
    { Frac(0, 1) } \cup { Frac(k, n) : k \in 0..MaxSkills, n \in 1..MaxSkills }

InitScore ==
    /\ resumes = Empty /\ files = Empty /\ bg = Empty /\ jds = Empty
    /\ resp = NoResp
    /\ \E sim \in Similarities, skill \in HeuristicScores,
          exp \in HeuristicScores, top_k \in TOP_K_MIN..MaxTopK :
         /\ skill.num <= skill.den /\ exp.num <= exp.den
         /\ call = [fn |-> "score_fields", top_k |-> top_k,
                    semantic_sim |-> sim, skill_score |-> skill,
                    exp_score |-> exp]
    /\ ret = NoRet
    /\ _model = Null /\ thr = NoThreads
    /\ conns = {} /\ ops = NoOps

EvalScore ==
    /\ call.fn = "score_fields" /\ ret = NoRet
    /\ ret' = [fn |-> "score_fields",
               value |-> score_fields(call.semantic_sim, call.skill_score,
                                      call.exp_score)]
    /\ UNCHANGED <<resumes, files, bg, jds, resp, call, _model, thr, conns, ops>>

NextScore == EvalScore

SpecScore == InitScore /\ [][NextScore]_vars

----------------------------------------------------------------------------
(* The two skill extractors on their own: parser.extract_skills with a     *)
(* skill list the caller passes, and extract_jd_skills, over every text    *)
(* made of the words below.                                                *)

Words == {"I", "use", "Go", "going", "forward", "Python", "sql"}

\* a text of the given words; the extractors read its words only
TextOf(toks) == Text(0, Cardinality(toks), 0, toks, Null, 0)

InitSkills ==
    /\ resumes = Empty /\ files = Empty /\ bg = Empty /\ jds = Empty
    /\ resp = NoResp
    /\ \E toks \in SUBSET Words :
         \/ call = [fn |-> "extract_skills", text |-> TextOf(toks),
                    skill_list |-> SKILL_TERMS]
         \/ call = [fn |-> "extract_jd_skills", text |-> TextOf(toks),
                    skill_list |-> SKILL_TERMS]
    /\ ret = NoRet
    /\ _model = Null /\ thr = NoThreads
    /\ conns = {} /\ ops = NoOps

EvalExtractSkills ==
    /\ call.fn = "extract_skills" /\ ret = NoRet
    /\ ret' = [fn |-> "extract_skills",
               value |-> extract_skills_in(call.text.toks, call.skill_list)]
    /\ UNCHANGED <<resumes, files, bg, jds, resp, call, _model, thr, conns, ops>>

EvalExtractJdSkills ==
    /\ call.fn = "extract_jd_skills" /\ ret = NoRet
    /\ ret' = [fn |-> "extract_jd_skills",
               value |-> extract_jd_skills(Some(call.text))]
    /\ UNCHANGED <<resumes, files, bg, jds, resp, call, _model, thr, conns, ops>>

NextSkills == EvalExtractSkills \/ EvalExtractJdSkills

SpecSkills == InitSkills /\ [][NextSkills]_vars

----------------------------------------------------------------------------
(* apps/api/app/embeddings.py: embed_text called from the threads of the   *)
(* worker pool (process_resume_text and create_job_description are plain   *)
(* functions, which the framework runs on pool threads). A thread can be   *)
(* preempted between any two statements; the constructor reads the model   *)
(* files and yields the interpreter while it does. A model instance is     *)
(* named by the thread whose constructor call made it.                     *)

MaxThreads == 3

Threads == 1..MaxThreads

\* a thread inside embed_text: inst is the value of the constructor call it
\* has evaluated, used the instance get_model returned to it
Frame(pc, inst, used) == [pc |-> pc, inst |-> inst, used |-> used]

\* line 16: model = get_model()
EmbedText(t) ==
    /\ t \notin DOMAIN thr
    /\ thr' = Insert(thr, t, Frame("test", Null, Null))
    /\ UNCHANGED <<resumes, files, bg, jds, resp, call, ret, _model, conns, ops>>

\* line 10: if _model is None
GetModelTest(t) ==
    /\ t \in DOMAIN thr /\ thr[t].pc = "test"
    /\ thr' = [thr EXCEPT ![t].pc = IF _model = Null THEN "construct"
                                    ELSE "return"]
    /\ UNCHANGED <<resumes, files, bg, jds, resp, call, ret, _model, conns, ops>>

\* lines 11-12: SentenceTransformer(name), the right-hand side
GetModelConstruct(t) ==
    /\ t \in DOMAIN thr /\ thr[t].pc = "construct"
    /\ thr' = [thr EXCEPT ![t].pc = "assign", ![t].inst = Some(t)]
    /\ UNCHANGED <<resumes, files, bg, jds, resp, call, ret, _model, conns, ops>>

\* line 12: _model = ...
GetModelAssign(t) ==
    /\ t \in DOMAIN thr /\ thr[t].pc = "assign"
    /\ _model' = thr[t].inst
    /\ thr' = [thr EXCEPT ![t].pc = "return"]
    /\ UNCHANGED <<resumes, files, bg, jds, resp, call, ret, conns, ops>>

\* line 13: return _model
GetModelReturn(t) ==
    /\ t \in DOMAIN thr /\ thr[t].pc = "return"
    /\ thr' = [thr EXCEPT ![t].pc = "encode", ![t].used = _model]
    /\ UNCHANGED <<resumes, files, bg, jds, resp, call, ret, _model, conns, ops>>

\* lines 17-18: model.encode(text, ...).tolist()
Encode(t) ==
    /\ t \in DOMAIN thr /\ thr[t].pc = "encode"
    /\ thr' = [thr EXCEPT ![t].pc = "done"]
    /\ UNCHANGED <<resumes, files, bg, jds, resp, call, ret, _model, conns, ops>>

InitEmbed ==
    /\ resumes = Empty /\ files = Empty /\ bg = Empty /\ jds = Empty
    /\ resp = NoResp /\ call = NoCall /\ ret = NoRet
    /\ _model = Null
    /\ thr = NoThreads
    /\ conns = {} /\ ops = NoOps

NextEmbed ==
    \/ \E t \in Threads : EmbedText(t)
    \/ \E t \in Threads : GetModelTest(t)
    \/ \E t \in Threads : GetModelConstruct(t)
    \/ \E t \in Threads : GetModelAssign(t)
    \/ \E t \in Threads : GetModelReturn(t)
    \/ \E t \in Threads : Encode(t)

SpecEmbed == InitEmbed /\ [][NextEmbed]_vars

----------------------------------------------------------------------------
(* The storage connection of one operation. Every operation runs the same  *)
(* statements: conn = get_conn(), conn.cursor(), cur.execute(...), then    *)
(* conn.commit() for a write or cur.fetchone()/fetchall() for a read, then *)
(* cur.close() and conn.close(), with no try/finally around them. connect, *)
(* execute and commit can raise (the store is unreachable, the statement   *)
(* is rejected).                                                           *)

MaxCalls == 2

Calls == 1..MaxCalls

Writes ==
    {"set_status", "set_phase3_outputs", "upload_resume",
     "create_job_description"}
Reads == {"get_resume", "get_resume_text", "get_job_description"}
Operations == Writes \cup Reads \cup {"match"}

\* the operation is called
OpCall(c, op) ==
    /\ c \notin DOMAIN ops
    /\ ops' = Insert(ops, c, [op |-> op, pc |-> "get_conn"])
    /\ UNCHANGED <<resumes, files, bg, jds, resp, call, ret, _model, thr,
                   conns>>

\* conn = get_conn(): a connection is open, or psycopg2.connect raises
GetConn(c) ==
    /\ c \in DOMAIN ops /\ ops[c].pc = "get_conn"
    /\ \/ /\ conns' = conns \cup {c}
          /\ ops' = [ops EXCEPT ![c].pc = "execute"]
       \/ /\ ops' = [ops EXCEPT ![c].pc = "raised"]
          /\ UNCHANGED conns
    /\ UNCHANGED <<resumes, files, bg, jds, resp, call, ret, _model, thr>>

\* cur.execute(...) of the first statement; in match, a job description
\* that is missing or has no embedding goes to the close statements of
\* lines 207-216
Execute(c) ==
    /\ c \in DOMAIN ops /\ ops[c].pc = "execute"
    /\ \/ /\ ops[c].op \in Writes
          /\ ops' = [ops EXCEPT ![c].pc = "commit"]
       \/ /\ ops[c].op \in Reads
          /\ ops' = [ops EXCEPT ![c].pc = "close"]
       \/ /\ ops[c].op = "match"
          /\ \/ ops' = [ops EXCEPT ![c].pc = "execute_query"]
             \/ ops' = [ops EXCEPT ![c].pc = "close_error"]
       \/ ops' = [ops EXCEPT ![c].pc = "raised"]
    /\ UNCHANGED <<resumes, files, bg, jds, resp, call, ret, _model, thr,
                   conns>>

\* routes_match.py lines 221-237: the vector query
ExecuteQuery(c) ==
    /\ c \in DOMAIN ops /\ ops[c].pc = "execute_query"
    /\ \/ ops' = [ops EXCEPT ![c].pc = "close"]
       \/ ops' = [ops EXCEPT ![c].pc = "raised"]
    /\ UNCHANGED <<resumes, files, bg, jds, resp, call, ret, _model, thr,
                   conns>>

\* conn.commit()
Commit(c) ==
    /\ c \in DOMAIN ops /\ ops[c].pc = "commit"
    /\ \/ ops' = [ops EXCEPT ![c].pc = "close"]
       \/ ops' = [ops EXCEPT ![c].pc = "raised"]
    /\ UNCHANGED <<resumes, files, bg, jds, resp, call, ret, _model, thr,
                   conns>>

\* cur.close(); conn.close(), then the return; a read that found no row
\* raises HTTPException after them, and so does match for a job description
\* that is missing or has no embedding
Close(c) ==
    /\ c \in DOMAIN ops /\ ops[c].pc \in {"close", "close_error"}
    /\ conns' = conns \ {c}
    /\ \/ /\ ops[c].pc = "close"
          /\ ops' = [ops EXCEPT ![c].pc = "returned"]
       \/ /\ ops[c].pc = "close_error" \/ ops[c].op \in Reads
          /\ ops' = [ops EXCEPT ![c].pc = "raised"]
    /\ UNCHANGED <<resumes, files, bg, jds, resp, call, ret, _model, thr>>

InitConn ==
    /\ resumes = Empty /\ files = Empty /\ bg = Empty /\ jds = Empty
    /\ resp = NoResp /\ call = NoCall /\ ret = NoRet
    /\ _model = Null /\ thr = NoThreads
    /\ conns = {}
    /\ ops = NoOps

NextConn ==
    \/ \E c \in Calls, op \in Operations : OpCall(c, op)
    \/ \E c \in Calls : GetConn(c)
    \/ \E c \in Calls : Execute(c)
    \/ \E c \in Calls : ExecuteQuery(c)
    \/ \E c \in Calls : Commit(c)
    \/ \E c \in Calls : Close(c)

SpecConn == InitConn /\ [][NextConn]_vars

----------------------------------------------------------------------------
(* apps/api/app/parser.py: extract_section on its own. A text is a         *)
(* sequence of pieces, each a run of characters that ends with its         *)
(* separating blank: a word, a line break, or a block of prose that holds  *)
(* none of the keywords. Offsets are character offsets.                    *)

WINDOW == 2500

MaxPieces == 5

Pieces == {"skills", "education", "experience", "Python", "LF", "prose"}

\* len() of a piece
PieceLen(w) ==
    CASE w = "skills" -> 7
      [] w = "education" -> 10
      [] w = "experience" -> 11
      [] w \in {"Python", "python"} -> 7
      [] w = "LF" -> 1
      [] w = "prose" -> 1245

RECURSIVE TextLen(_)
TextLen(t) == IF t = <<>> THEN 0 ELSE PieceLen(Head(t)) + TextLen(Tail(t))

\* the offset of piece i of t
Offset(t, i) == TextLen(SubSeq(t, 1, i - 1))

SetMin(S) == CHOOSE x \in S : \A y \in S : x <= y

SECTION_HEADERS ==
    [skills |-> <<"skills", "technical skills">>,
     education |-> <<"education", "academic background">>,
     experience |-> <<"experience", "work experience",
                      "professional experience">>]

stop_keywords ==
    <<"education", "experience", "projects", "skills", "certifications",
      "summary">>

\* str.lower() on a text
lower(t) == [i \in DOMAIN t |-> Lower(t[i])]

\* str.find(k): the offset of the first occurrence, -1 for none
find(t, k) ==
    LET at == { i \in DOMAIN t : t[i] = k }
    IN  IF at = {} THEN -1 ELSE Offset(t, SetMin(at))

\* a string that may end inside a piece: the whole pieces and, when the end
\* falls inside the next one, that piece and the characters kept of it
Str(pieces, part) == [pieces |-> pieces, part |-> part]

\* t[a:b], for an offset a at which a piece starts
Slice(t, a, b) ==
    LET from == SetMin({ i \in 1..(Len(t) + 1) : Offset(t, i) >= a })
        upto == { i \in from..Len(t) : Offset(t, i + 1) <= b }
        whole == SubSeq(t, from, from + Cardinality(upto) - 1)
        next == from + Cardinality(upto)
    IN  Str(whole,
            IF next <= Len(t) /\ Offset(t, next) < b
            THEN Some([of |-> t[next], chars |-> b - Offset(t, next)])
            ELSE Null)

\* re.sub(r"\s+", " ", text).strip()
normalize(str) ==
    Str(SelectSeq(str.pieces, LAMBDA w : w # "LF"), str.part)

\* faulty variant: every occurrence of a stop keyword after offset 0 is a
\* stop
extract_section_every_occurrence(text, header_variants) ==
    LET found == { j \in DOMAIN header_variants :
                     find(lower(text), Lower(header_variants[j])) # -1 }
        start == IF found = {} THEN -1
                 ELSE find(lower(text), Lower(header_variants[SetMin(found)]))
        chunk == Slice(text, start, start + WINDOW)
        chunk_lower == lower(chunk.pieces)
        stops == { Offset(chunk_lower, i) : i \in
                     { j \in DOMAIN chunk_lower :
                         /\ InSeq(chunk_lower[j], stop_keywords)
                         /\ Offset(chunk_lower, j) > 0 } }
        second == SetMin(stops \ {SetMin(stops)})
    IN  IF start = -1 THEN Str(<<>>, Null)
        ELSE IF Cardinality(stops) >= 2
        THEN normalize(Slice(text, start, start + second))
        ELSE normalize(chunk)

extract_section(text, header_variants) ==
    LET found == { j \in DOMAIN header_variants :
                     find(lower(text), Lower(header_variants[j])) # -1 }
        start == IF found = {} THEN -1
                 ELSE find(lower(text), Lower(header_variants[SetMin(found)]))
        chunk == Slice(text, start, start + WINDOW)
        chunk_lower == lower(chunk.pieces)
        stops == { find(chunk_lower, stop_keywords[i]) : i \in
                     { j \in DOMAIN stop_keywords :
                         find(chunk_lower, stop_keywords[j]) # -1 } }
                   \ { s \in Int : s <= 0 }
        second == SetMin(stops \ {SetMin(stops)})
    IN  IF start = -1 THEN Str(<<>>, Null)
        ELSE IF Cardinality(stops) >= 2
        THEN normalize(Slice(text, start, start + second))
        ELSE normalize(chunk)

Texts == UNION { [1..n -> Pieces] : n \in 0..MaxPieces }

InitSection ==
    /\ resumes = Empty /\ files = Empty /\ bg = Empty /\ jds = Empty
    /\ resp = NoResp
    /\ \E t \in Texts, h \in DOMAIN SECTION_HEADERS :
         call = [fn |-> "extract_section", text |-> t,
                 header_variants |-> SECTION_HEADERS[h]]
    /\ ret = NoRet
    /\ _model = Null /\ thr = NoThreads
    /\ conns = {} /\ ops = NoOps

EvalSection ==
    /\ call.fn = "extract_section" /\ ret = NoRet
    /\ ret' = [fn |-> "extract_section",
               value |-> extract_section(call.text, call.header_variants)]
    /\ UNCHANGED <<resumes, files, bg, jds, resp, call, _model, thr, conns,
                   ops>>

NextSection == EvalSection

SpecSection == InitSection /\ [][NextSection]_vars

----------------------------------------------------------------------------
(* Properties *)

Terminal == {"PROCESSED", "NEEDS_OCR", "FAILED"}
Ended(id) == bg[id].pc \in {"returned", "raised"}

\* C1: a row whose status is PROCESSED holds clean_text, parsed_json and
\* embedding, in every state any other request can read, for every
\* interleaving of uploads, background runs and reads.
C1_ProcessedHasOutputs ==
    \A id \in DOMAIN resumes :
        resumes[id].status = "PROCESSED" =>
            /\ resumes[id].clean_text # Null
            /\ resumes[id].parsed_json # Null
            /\ resumes[id].embedding # Null

\* a processed row beside a run that is still in its third phase
C1_Witness ==
    \E a, b \in DOMAIN resumes :
        /\ resumes[a].status = "PROCESSED"
        /\ bg[b].pc = "phase3"

ClaimedEdges ==
    { <<"UPLOADED", "PROCESSING">>, <<"PROCESSING", "EXTRACTED">>,
      <<"PROCESSING", "NEEDS_OCR">>, <<"PROCESSING", "FAILED">>,
      <<"EXTRACTED", "PROCESSED">>, <<"EXTRACTED", "FAILED">> }

\* every status change of a step is an edge of Edges, and a row a step
\* inserts is UPLOADED with its run not yet started
StatusStep(Edges) ==
    /\ \A id \in DOMAIN resumes :
         \/ resumes'[id].status = resumes[id].status
         \/ <<resumes[id].status, resumes'[id].status>> \in Edges
    /\ \A id \in DOMAIN resumes' \ DOMAIN resumes :
         /\ resumes'[id].status = "UPLOADED"
         /\ bg'[id].pc = "start"

\* C2 as claimed: the status starts as UPLOADED, committed before the run's
\* first step, and changes only along the six claimed edges.
C2_ClaimedEdgesOnly == [][StatusStep(ClaimedEdges)]_vars

\* C2 amended: the same with the edge UPLOADED->FAILED, taken when the write
\* of PROCESSING itself raises and the handler's write commits.
C2_EdgesWithStartFailure ==
    [][StatusStep(ClaimedEdges \cup {<<"UPLOADED", "FAILED">>})]_vars

\* a run whose first write raised and whose handler marked the row FAILED
C2_Witness ==
    \E id \in DOMAIN resumes :
        /\ bg[id].at = "start" /\ bg[id].pc = "returned"
        /\ resumes[id].status = "FAILED"

\* C3: once the status of a row is PROCESSED, NEEDS_OCR or FAILED, no step
\* of any run or request handler changes it.
C3_TerminalIsFinal ==
    [][\A id \in DOMAIN resumes :
          resumes[id].status \in Terminal =>
              resumes'[id].status = resumes[id].status]_vars

\* every terminal status has been reached by a run that has returned while
\* another resume is still being processed
C3_Witness ==
    \E a, b \in DOMAIN resumes :
        /\ resumes[a].status = "NEEDS_OCR" /\ bg[a].pc = "returned"
        /\ resumes[b].status = "PROCESSING"

\* C4: a run in which a step raised ends by returning, with status FAILED
\* and raw_text the diagnostic of the exception; no run ends with its row in
\* a non-terminal status.
C4_RaiseEndsInFailed ==
    \A id \in DOMAIN bg :
        Ended(id) =>
            /\ bg[id].pc = "returned"
            /\ resumes[id].status \in Terminal
            /\ bg[id].exc # Null =>
                 /\ resumes[id].status = "FAILED"
                 /\ resumes[id].raw_text = Some(Diag(Val(bg[id].exc)))

Short(id) == bg[id].text # Null /\ Len_(strip(Val(bg[id].text))) < 200
Long(id) == bg[id].text # Null /\ Len_(strip(Val(bg[id].text))) >= 200

NoOutputs(id) ==
    /\ resumes[id].clean_text = Null
    /\ resumes[id].parsed_json = Null
    /\ resumes[id].embedding = Null

\* C5 as claimed: a run whose extracted text trims to fewer than 200
\* characters ends with status NEEDS_OCR and that text as raw_text.
C5_ShortEndsNeedsOcr ==
    \A id \in DOMAIN bg :
        Short(id) /\ Ended(id) =>
            /\ resumes[id].status = "NEEDS_OCR"
            /\ resumes[id].raw_text = bg[id].text

\* C5 amended: with a text that trims to fewer than 200 characters the run
\* ends in NEEDS_OCR with that text when the gate's write commits, the row
\* is never EXTRACTED or PROCESSED and keeps no outputs whether or not the
\* write commits; with 200 or more characters the row is EXTRACTED with that
\* text once the gate's write has committed.
C5_GateWhenWriteCommits ==
    \A id \in DOMAIN bg :
        /\ Short(id) =>
             /\ resumes[id].status \notin {"EXTRACTED", "PROCESSED"}
             /\ NoOutputs(id)
             /\ Ended(id) /\ bg[id].at = "none" =>
                  /\ resumes[id].status = "NEEDS_OCR"
                  /\ resumes[id].raw_text = bg[id].text
        /\ Long(id) /\ bg[id].pc # "gate" /\ bg[id].at # "gate" =>
             /\ resumes[id].status \in {"EXTRACTED", "PROCESSED", "FAILED"}
             /\ resumes[id].status = "EXTRACTED" =>
                  resumes[id].raw_text = bg[id].text
             /\ bg[id].pc = "phase3" => resumes[id].status = "EXTRACTED"

\* one run stopped at the gate with an empty text, another passed it
C5_Witness ==
    \E a, b \in DOMAIN bg :
        /\ Short(a) /\ Len_(Val(bg[a].text)) = 0
        /\ bg[a].pc = "returned" /\ resumes[a].status = "NEEDS_OCR"
        /\ Long(b) /\ bg[b].pc = "phase3"

FailedAfterExtracted(id) == bg[id].at \in {"phase3", "store"}

\* C6 as claimed: after a failure that follows the commit of EXTRACTED, the
\* text read path still returns the text committed with EXTRACTED.
C6_TextSurvivesFailure ==
    \A id \in DOMAIN bg :
        /\ FailedAfterExtracted(id)
        /\ bg[id].pc = "returned"
        /\ resumes[id].status = "FAILED"
        => get_resume_text(id).raw_text = bg[id].text

\* C6 amended: after such a failure the text read path returns the
\* extracted text as long as the status is EXTRACTED (for good when the
\* handler's write raises) and the diagnostic of the exception once the
\* status is FAILED.
C6_TextUntilFailedWrite ==
    \A id \in DOMAIN bg :
        FailedAfterExtracted(id) =>
            LET r == get_resume_text(id)
            IN  /\ r.status \in {"EXTRACTED", "FAILED"}
                /\ r.status = "EXTRACTED" => r.raw_text = bg[id].text
                /\ r.status = "FAILED" =>
                     r.raw_text = Some(Diag(Val(bg[id].exc)))
                /\ bg[id].pc = "returned" => r.status = "FAILED"
                /\ bg[id].pc = "raised" => r.status = "EXTRACTED"

\* the embedding raised after EXTRACTED and the handler marked the row
C6_Witness ==
    \E id \in DOMAIN bg :
        /\ bg[id].at = "phase3" /\ bg[id].pc = "returned"
        /\ resumes[id].status = "FAILED"

\* C7: a match on an id that is not in job_descriptions answers 404, on a
\* row without embedding 400; neither queries resumes, returns results or
\* changes a row of either table.
C7_MatchRejectsBadJD ==
    [][resp'.op = "match" /\ resp'.code # 422 =>
         /\ resp'.jd_id \notin DOMAIN jds =>
              resp'.code = 404 /\ ~resp'.queried /\ resp'.results = <<>>
         /\ resp'.jd_id \in DOMAIN jds /\ jds[resp'.jd_id].embedding = Null =>
              resp'.code = 400 /\ ~resp'.queried /\ resp'.results = <<>>
         /\ resp'.code \in {400, 404} =>
              \/ resp'.jd_id \notin DOMAIN jds
              \/ jds[resp'.jd_id].embedding = Null
         /\ resumes' = resumes /\ jds' = jds]_vars

\* a 400 on the row without embedding while a processed resume exists
C7_Witness ==
    /\ resp.op = "match" /\ resp.code = 400
    /\ \E id \in DOMAIN resumes : resumes[id].status = "PROCESSED"

ResultIds(r) == { r.results[i].resume_id : i \in DOMAIN r.results }

\* C8: the resumes a match returns were PROCESSED with an embedding in the
\* state the query ran in, are at most top_k, and are the nearest: no
\* eligible resume left out is strictly nearer than one returned, and one is
\* left out only when top_k are returned.
C8_MatchReturnsNearestProcessed ==
    [][resp'.op = "match" /\ resp'.code = 200 =>
         LET q == Val(jds[resp'.jd_id].embedding)
             got == ResultIds(resp')
             ok == { id \in DOMAIN resumes :
                       /\ resumes[id].status = "PROCESSED"
                       /\ resumes[id].embedding # Null }
             d(id) == CosineDistance(Val(resumes[id].embedding), q)
         IN  /\ got \subseteq ok
             /\ Len(resp'.results) <= resp'.top_k
             /\ Cardinality(got) = Len(resp'.results)
             /\ \A left \in ok \ got :
                  /\ Len(resp'.results) = resp'.top_k
                  /\ \A r \in got : ~FracLess(d(left), d(r))]_vars

\* top_k = 1 with two processed resumes at different distances
C8_Witness ==
    /\ resp.op = "match" /\ resp.code = 200 /\ resp.top_k = 1
    /\ Len(resp.results) = 1
    /\ \E a, b \in Eligible(resumes) :
         resumes[a].embedding # resumes[b].embedding

PosIn(seq, x) == CHOOSE i \in DOMAIN seq : seq[i] = x

\* C9: the results of a match are in non-increasing order of final_score,
\* results of equal final_score in the order the query returned them, and
\* they are the retrieved rows.
C9_ResultsSortedStable ==
    resp.op = "match" /\ resp.code = 200 =>
        /\ ResultIds(resp) = { resp.retrieved[i] : i \in DOMAIN resp.retrieved }
        /\ Len(resp.results) = Len(resp.retrieved)
        /\ \A i, j \in DOMAIN resp.results :
             i < j =>
               /\ resp.results[i].final_score >= resp.results[j].final_score
               /\ resp.results[i].final_score = resp.results[j].final_score =>
                    PosIn(resp.retrieved, resp.results[i].resume_id)
                      < PosIn(resp.retrieved, resp.results[j].resume_id)

\* two results of equal final_score, returned by the query in the order 2, 1
C9_Witness ==
    /\ resp.op = "match" /\ resp.code = 200
    /\ Len(resp.results) = 2
    /\ resp.results[1].final_score = resp.results[2].final_score
    /\ resp.retrieved = <<2, 1>>

IsSubsequence(sub, seq) ==
    \E f \in [DOMAIN sub -> DOMAIN seq] :
        /\ \A i \in DOMAIN sub : seq[f[i]] = sub[i]
        /\ \A i, j \in DOMAIN sub : i < j => f[i] < f[j]

\* C10: the score is the number of job-description skills in the resume's
\* skill set over the number of job-description skills, 0 for no
\* job-description skill, within [0,1]; matched and missing split the
\* job-description skills, each keeping their order.
C10_SkillOverlap ==
    ret.fn = "compute_skill_overlap" =>
        LET rs == { call.resume_skills[i] : i \in DOMAIN call.resume_skills }
            jd == call.jd_skills
            v == ret.value
            hit == { i \in DOMAIN jd : jd[i] \in rs }
        IN  /\ jd # <<>> => v.score.num = Cardinality(hit)
                            /\ v.score.den = Len(jd)
            /\ jd = <<>> => v.score.num = 0
            /\ v.score.den > 0
            /\ 0 <= v.score.num /\ v.score.num <= v.score.den
            /\ \A i \in DOMAIN jd :
                 /\ i \in hit <=> InSeq(jd[i], v.matched)
                 /\ i \notin hit <=> InSeq(jd[i], v.missing)
            /\ Len(v.matched) + Len(v.missing) = Len(jd)
            /\ IsSubsequence(v.matched, jd)
            /\ IsSubsequence(v.missing, jd)

\* job-description skills python, sql against the resume skill python: 1/2
C10_Witness ==
    /\ ret.fn = "compute_skill_overlap"
    /\ call.jd_skills = <<"python", "sql">>
    /\ call.resume_skills = <<"python">>
    /\ ret.value.score = Frac(1, 2)
    /\ ret.value.matched = <<"python">>
    /\ ret.value.missing = <<"sql">>

Abs(x) == IF x < 0 THEN -x ELSE x

\* C11: the final score of a result is 0.60 * similarity + 0.25 * overlap +
\* 0.15 * alignment over the unrounded components (a null similarity
\* counting as 0), rounded to 4 decimal places: it lies within half a unit
\* of 1/10000 of the exact weighted sum, whatever top_k the request carries;
\* 0.8, 0.5 and 1.0 give 0.755.
C11_FinalScoreWeights ==
    ret.fn = "score_fields" =>
        LET s == IF call.semantic_sim = Null THEN Frac(0, 1)
                 ELSE Val(call.semantic_sim)
            k == call.skill_score
            e == call.exp_score
            D == 100 * s.den * k.den * e.den
            N == 60 * s.num * k.den * e.den + 25 * k.num * s.den * e.den
                   + 15 * e.num * s.den * k.den
            v == ret.value.final_score
        IN  /\ 2 * Abs(v * D - 10000 * N) <= D
            /\ (s = Frac(4, 5) /\ k = Frac(1, 2) /\ e = Frac(1, 1)) => v = 7550

\* similarity 0.8, overlap 0.5, alignment 1.0: 0.755
C11_Witness ==
    /\ ret.fn = "score_fields"
    /\ call.semantic_sim = Some(Frac(4, 5))
    /\ call.skill_score = Frac(1, 2)
    /\ call.exp_score = Frac(1, 1)
    /\ ret.value.final_score = 7550
    /\ ret.value.skills_overlap = 5000

\* C12: either extractor reports a single-token term of its vocabulary
\* exactly when the term is a whole word of the lowercased text, never when
\* it only sits inside a longer word: "I use Go" yields go, "going forward"
\* does not.
C12_WordBounded ==
    ret.fn \in {"extract_skills", "extract_jd_skills"} =>
        \A i \in DOMAIN call.skill_list :
            InSeq(call.skill_list[i], ret.value)
                <=> \E w \in call.text.toks : Lower(w) = call.skill_list[i]

\* C13: for any interleaving of embed_text callers on different threads,
\* the constructor inside get_model is executed at most once, and every
\* caller uses that one instance.
C13_ModelLoadedOnce ==
    /\ Cardinality({ t \in DOMAIN thr : thr[t].inst # Null }) <= 1
    /\ \A t, u \in DOMAIN thr :
         thr[t].used # Null /\ thr[u].used # Null => thr[t].used = thr[u].used

\* C14: once an operation has returned or raised, the connection it opened
\* is closed; with no operation in progress no connection is open.
C14_ConnectionsReleased ==
    /\ \A c \in DOMAIN ops :
         ops[c].pc \in {"returned", "raised"} => c \notin conns
    /\ (\A c \in DOMAIN ops : ops[c].pc \in {"returned", "raised"})
           => Cardinality(conns) = 0

\* The piece of call.text at which the first header variant that occurs
\* first occurs; 0 when none occurs.
HeaderAt ==
    LET t == lower(call.text)
        hv == call.header_variants
        present == { j \in DOMAIN hv : InSeq(hv[j], t) }
    IN  IF present = {} THEN 0
        ELSE SetMin({ i \in DOMAIN t : t[i] = hv[SetMin(present)] })

\* piece i lies inside the window of WINDOW characters from the header
InWindow(i) ==
    /\ i >= HeaderAt
    /\ Offset(call.text, i + 1) - Offset(call.text, HeaderAt) <= WINDOW

\* the stop keywords in the window at offsets greater than 0
Occurrences ==
    { i \in DOMAIN call.text :
        /\ InWindow(i) /\ i > HeaderAt
        /\ InSeq(lower(call.text)[i], stop_keywords) }

\* those of them that are the first occurrence of their keyword in the
\* window
FirstOccurrences ==
    { i \in Occurrences :
        \A j \in HeaderAt..(i - 1) : lower(call.text)[j] # lower(call.text)[i] }

\* the section cut at the second of the pieces S in position order, or left
\* uncut when S has fewer than two
CutBy(S) ==
    LET start == Offset(call.text, HeaderAt)
        second == SetMin(S \ {SetMin(S)})
    IN  IF Cardinality(S) >= 2
        THEN normalize(Str(SubSeq(call.text, HeaderAt, second - 1), Null))
        ELSE normalize(Slice(call.text, start, start + WINDOW))

\* C15 as stated: the chunk is cut at the second occurrence of a stop
\* keyword at an offset greater than 0 within the window, also when both
\* occurrences are of the same keyword, and is left uncut when there are
\* fewer than two.
C15_CutAtSecondOccurrence ==
    (ret.fn = "extract_section" /\ HeaderAt # 0) =>
        ret.value = CutBy(Occurrences)

\* C15 as the code has it: only the first occurrence of each stop keyword in
\* the window counts, and only when its offset is greater than 0; the chunk
\* is cut at the second of these in position order and left uncut when
\* there are fewer than two. A text without the header gives the empty
\* section.
C15_CutAtSecondFirstOccurrence ==
    ret.fn = "extract_section" =>
        IF HeaderAt = 0 THEN ret.value = Str(<<>>, Null)
        ELSE ret.value = CutBy(FirstOccurrences)

\* skills Python skills education experience: the repeated header word is no
\* stop, the cut is at experience
C15_Witness ==
    /\ ret.fn = "extract_section"
    /\ call.header_variants = SECTION_HEADERS.skills
    /\ call.text = <<"skills", "Python", "skills", "education", "experience">>
    /\ Cardinality(Occurrences) = 3
    /\ ret.value = Str(<<"skills", "Python", "skills", "education">>, Null)

====
